---- MODULE Spec2Model ----
(***************************************************************************)
(* royalroad-dl: the resumable, rate-limited, bounded-concurrency          *)
(* fetch-and-append pipeline.                                              *)
(*                                                                         *)
(*   EqSpec   ChapterUrl equality (src/src/main.rs, impl PartialEq)        *)
(*   IterSpec BufferedIter over an arbitrary source (src/src/lib.rs)       *)
(*   Spec     main: open/scan/backup/header/fetch/append, over several     *)
(*            process runs with kills in between (src/src/main.rs)         *)
(*                                                                         *)
(* A Url is [cab, segs]: cab = the url "cannot be a base" (mailto:, data:) *)
(* and then has no path segments; otherwise segs are its path segments.    *)
(* A file is [ex, data]: data is a sequence of tokens, one token standing  *)
(* for one run of bytes of the document.                                   *)
(***************************************************************************)
EXTENDS Integers, Sequences, FiniteSets, TLC

VARIABLES
    lhs, rhs, eqres,                    \* EqSpec: two ChapterUrl and the results of ==
    source, yielded, completed, bpc,    \* IterSpec: the wrapped source, results of next()
    sized, obs,                         \* IterSpec: the source's kind of size_hint, last size_hint()/len()
    bi, limit,                          \* BufferedIter {iter, buffer} and its limit
    disk, bk, pos,                      \* the output file, <path>.bk, the file cursor
    pc, run, optInc, incremental,       \* main's position, run number, opt.incremental
    chapters, slug, cached,             \* the chapter list, the server's label, the cache
    handle, task, tokens, refills,      \* awaited JoinHandle, spawned tasks, RateLimiter and its refills
    overtaken,                          \* a response has arrived before that of an earlier chapter
    hdr, orig, copied, prev, same       \* history of the run: header step passed, the
                                        \* file it found, backup made, how the run before
                                        \* ended, same chapter list as the run before

eqvars   == <<lhs, rhs, eqres>>
itervars == <<source, yielded, completed, bpc, sized, obs>>
mainvars == <<disk, bk, pos, pc, run, optInc, incremental, chapters, slug, cached,
              handle, task, tokens, refills, overtaken, hdr, orig, copied, prev, same>>
vars     == <<eqvars, itervars, bi, limit, mainvars>>

----------------------------------------------------------------------------
(* Bounds *)

MaxSegs  == 4      \* EqSpec: longest path, in segments
MaxLen   == 3      \* IterSpec: longest source script
MaxLimit == 2      \* IterSpec: largest finite `limit`
MaxCalls == 5      \* IterSpec: next() calls per iterator

----------------------------------------------------------------------------
(* ChapterUrl *)

Segs == {"p", "q"}
Paths == UNION {[1..n -> Segs] : n \in 1..MaxSegs}
CannotBeABase == [cab |-> TRUE, segs |-> <<>>]
Urls == {[cab |-> FALSE, segs |-> s] : s \in Paths} \cup {CannotBeABase}

\* The position `i == 2` of the enumerate() in eq, counted from 0.
LabelIndex == 2

Min(x, y) == IF x <= y THEN x ELSE y

\* A seeded fault: no position is exempt.
ChapterUrlEq_NoLabel(a, b) ==
    IF a.cab \/ b.cab THEN FALSE
    ELSE \A i \in 1..Min(Len(a.segs), Len(b.segs)) : a.segs[i] = b.segs[i]

\* ChapterUrl::eq. Option::zip of the two path_segments() is None when either
\* url has none, and eq returns false; core::iter::zip stops with the shorter
\* of the two; all() over the enumerated pairs.
ChapterUrlEq(a, b) ==
    IF a.cab \/ b.cab THEN FALSE
    ELSE \A i \in 1..Min(Len(a.segs), Len(b.segs)) :
            (i - 1 = LabelIndex) \/ a.segs[i] = b.segs[i]

\* cached_chapters.contains(x)
Contains(v, x) == \E j \in 1..Len(v) : ChapterUrlEq(v[j], x)

EqKeys == {"ab", "ba", "aa", "bb"}
EqLeft(k)  == IF k \in {"ab", "aa"} THEN lhs ELSE rhs
EqRight(k) == IF k \in {"ba", "aa"} THEN lhs ELSE rhs

EqIdle == /\ lhs = CannotBeABase /\ rhs = CannotBeABase
          /\ eqres = [k \in EqKeys |-> "unset"]

EqInit == /\ lhs \in Urls /\ rhs \in Urls
          /\ eqres = [k \in EqKeys |-> "unset"]

\* One evaluation of `x == y` on ChapterUrl.
Compare(k) ==
    /\ eqres[k] = "unset"
    /\ eqres' = [eqres EXCEPT ![k] = IF ChapterUrlEq(EqLeft(k), EqRight(k))
                                     THEN "eq" ELSE "ne"]
    /\ UNCHANGED <<lhs, rhs>>

----------------------------------------------------------------------------
(* BufferedIter *)

\* Option::None of the element type; the elements are positive numbers.
None == 0

\* self.iter.next() of the wrapped iterator: a script of results, None after
\* its end. A script with None inside is an iterator that is not fused.
SourceNext(iter) ==
    IF iter = <<>> THEN [item |-> None, iter |-> <<>>]
    ELSE [item |-> Head(iter), iter |-> Tail(iter)]

\* VecDeque::from_iter(iter.by_ref().take(n)): Take stops calling the source
\* after n calls, from_iter stops at the first None.
RECURSIVE FromIterTake(_, _, _)
FromIterTake(iter, buffer, n) ==
    IF n = 0 THEN [iter |-> iter, buffer |-> buffer]
    ELSE LET r == SourceNext(iter) IN
         IF r.item = None THEN [iter |-> r.iter, buffer |-> buffer]
         ELSE FromIterTake(r.iter, Append(buffer, r.item), n - 1)

\* VecDeque::from_iter(iter.by_ref()): up to the first None.
RECURSIVE FromIterAll(_, _)
FromIterAll(iter, buffer) ==
    LET r == SourceNext(iter) IN
    IF r.item = None THEN [iter |-> r.iter, buffer |-> buffer]
    ELSE FromIterAll(r.iter, Append(buffer, r.item))

\* A seeded fault: one element too many is buffered.
BufferedIterNew_OneMore(iter, lim) ==
    IF lim = 0 THEN FromIterAll(iter, <<>>) ELSE FromIterTake(iter, <<>>, lim + 1)

\* A seeded fault: one element too few is buffered.
BufferedIterNew_OneLess(iter, lim) ==
    IF lim = 0 THEN FromIterAll(iter, <<>>) ELSE FromIterTake(iter, <<>>, lim - 1)

\* BufferedIter::new
BufferedIterNew(iter, lim) ==
    IF lim = 0 THEN FromIterAll(iter, <<>>) ELSE FromIterTake(iter, <<>>, lim)

\* A seeded fault: the source is not asked for the next element.
BufferedIterNext_NoPull(self) ==
    [res |-> IF self.buffer = <<>> THEN None ELSE Head(self.buffer),
     self |-> [iter |-> self.iter,
               buffer |-> IF self.buffer = <<>> THEN <<>> ELSE Tail(self.buffer)]]

\* A seeded fault: pop_back in place of pop_front.
BufferedIterNext_PopBack(self) ==
    LET n   == Len(self.buffer)
        res == IF n = 0 THEN None ELSE self.buffer[n]
        popped == IF n = 0 THEN <<>> ELSE SubSeq(self.buffer, 1, n - 1)
        r   == SourceNext(self.iter)
    IN [res |-> res,
        self |-> [iter |-> r.iter,
                  buffer |-> IF r.item # None THEN Append(popped, r.item) ELSE popped]]

\* BufferedIter::next: pop_front, then one call of the source, pushed back
\* when it is Some.
BufferedIterNext(self) ==
    LET res == IF self.buffer = <<>> THEN None ELSE Head(self.buffer)
        popped == IF self.buffer = <<>> THEN <<>> ELSE Tail(self.buffer)
        r   == SourceNext(self.iter)
    IN [res |-> res,
        self |-> [iter |-> r.iter,
                  buffer |-> IF r.item # None THEN Append(popped, r.item) ELSE popped]]

\* BufferedIter::len
BufferedIterLen(self) == Len(self.buffer)

\* Option::None of the upper bound of a size_hint.
NoUpper == -1

\* self.iter.size_hint() of the wrapped iterator: one that knows its length
\* (vec::IntoIter and the adapters main puts on it) reports what is left of
\* it as both bounds, any other reports (0, None).
SourceSizeHint(iter, exact) ==
    IF exact THEN <<Len(iter), Len(iter)>> ELSE <<0, NoUpper>>

\* A seeded fault: the queued elements are left out of the bounds.
BufferedIterSizeHint_SourceOnly(self, exact) == SourceSizeHint(self.iter, exact)

\* BufferedIter::size_hint: sh.0 + buffer.len(), sh.1.map(|x| x + buffer.len())
BufferedIterSizeHint(self, exact) ==
    LET sh == SourceSizeHint(self.iter, exact) IN
    <<sh[1] + Len(self.buffer),
      IF sh[2] = NoUpper THEN NoUpper ELSE sh[2] + Len(self.buffer)>>

Elems == {1, 2}
Scripts == UNION {[1..n -> Elems \cup {None}] : n \in 0..MaxLen}
EmptyIter == [iter |-> <<>>, buffer |-> <<>>]

RECURSIVE Somes(_)
Somes(s) == IF s = <<>> THEN <<>>
            ELSE IF Head(s) = None THEN Somes(Tail(s))
            ELSE <<Head(s)>> \o Somes(Tail(s))

\* The calls of source.next() made so far, and the positions of the script
\* whose element (a task handle) has been handed out by the source.
Pulled == SubSeq(source, 1, Len(source) - Len(bi.iter))
Started == {i \in 1..Len(Pulled) : source[i] # None}

\* No size_hint() or len() has been called since the last next().
NoObs == [lo |-> NoUpper, hi |-> NoUpper, len |-> NoUpper]

IterIdle == /\ source = <<>> /\ yielded = <<>> /\ completed = {} /\ bpc = "off"
            /\ sized = FALSE /\ obs = NoObs

IterInit == /\ source \in Scripts
            /\ limit \in 0..MaxLimit
            /\ bi = [iter |-> source, buffer |-> <<>>]
            /\ yielded = <<>> /\ completed = {} /\ bpc = "new"
            /\ sized \in BOOLEAN /\ obs = NoObs

\* let it = BufferedIter::new(source, limit)
New ==
    /\ bpc = "new"
    /\ bi' = BufferedIterNew(bi.iter, limit)
    /\ bpc' = "iter"
    /\ UNCHANGED <<source, yielded, completed, limit, sized, obs>>

\* it.next()
CallNext ==
    /\ bpc = "iter"
    /\ Len(yielded) < MaxCalls
    /\ LET r == BufferedIterNext(bi) IN
       /\ bi' = r.self
       /\ yielded' = Append(yielded, r.res)
    /\ obs' = NoObs
    /\ UNCHANGED <<source, completed, bpc, limit, sized>>

\* (it.size_hint(), it.len())
Observe ==
    /\ bpc = "iter" /\ obs = NoObs
    /\ LET sh == BufferedIterSizeHint(bi, sized) IN
       obs' = [lo |-> sh[1], hi |-> sh[2], len |-> BufferedIterLen(bi)]
    /\ UNCHANGED <<source, yielded, completed, bpc, bi, limit, sized>>

\* A task behind a handle the source has handed out finishes; the tasks run
\* on their own and finish in any order.
Complete(i) ==
    /\ i \in Started \ completed
    /\ completed' = completed \cup {i}
    /\ UNCHANGED <<source, yielded, bpc, bi, limit, sized, obs>>

----------------------------------------------------------------------------
(* The output file *)

MaxUnits  == 2     \* longest chapter list of the site
MaxRuns   == 2     \* process runs in one behaviour
MaxConn   == 1     \* largest finite opt.connections
BucketMax == 2     \* capacity of the RateLimiter's bucket
JunkLen   == 6     \* length of the unrelated file found at the path

Tok(k, u) == [k |-> k, u |-> u]
\* <html><head><meta charset="UTF-8"><title>{}</title></head><body>
Header  == Tok("header", CannotBeABase)
BodyEnd == Tok("</body>", CannotBeABase)
HtmlEnd == Tok("</html>", CannotBeABase)
END_HTML == <<BodyEnd, HtmlEnd>>
\* <h1><a class="chapter" href="{}">{}</a></h1>
ChapterLink(u) == Tok("h1a", u)
\* the div.chapter-content of the chapter
ChapterBody == Tok("content", CannotBeABase)
\* bytes of a file this program did not write
Junk == Tok("junk", CannotBeABase)

NoFile == [ex |-> FALSE, data |-> <<>>]
File(d) == [ex |-> TRUE, data |-> d]

\* write_all(bytes) with the cursor at offset p: overwrites, extends, never
\* truncates.
WriteAt(data, p, bytes) ==
    SubSeq(data, 1, p) \o bytes \o SubSeq(data, p + Len(bytes) + 1, Len(data))

\* previous_download.rfind("</body>"): the offset, or -1 for None.
RFind(data) ==
    LET hits == {i \in 1..Len(data) : data[i] = BodyEnd} IN
    IF hits = {} THEN -1 ELSE (CHOOSE i \in hits : \A j \in hits : j <= i) - 1

\* select(downloaded_chapters()) and the filter_map on href: the urls of the
\* chapter links of the document, in document order.
RECURSIVE CachedChapters(_)
CachedChapters(data) ==
    IF data = <<>> THEN <<>>
    ELSE IF Head(data).k = "h1a" THEN <<Head(data).u>> \o CachedChapters(Tail(data))
    ELSE CachedChapters(Tail(data))

\* The chapter urls the site can list, and the labels (index 2) the server
\* can answer with: response.url() is the requested url with the label the
\* server currently gives the fiction.
Path(s) == [cab |-> FALSE, segs |-> s]
UA == Path(<<"fiction", "1", "t", "c1">>)
UB == Path(<<"fiction", "1", "t", "c2">>)
UP == Path(<<"fiction", "1", "t", "c1", "x">>)
TocUrls == {UA, UB, UP}
Labels == {"t", "u"}
ResponseUrl(u, lab) == [u EXCEPT !.segs[LabelIndex + 1] = lab]

ChapterLists ==
    {s \in UNION {[1..n -> TocUrls] : n \in 0..MaxUnits} :
        \A i, j \in 1..Len(s) : i # j => s[i] # s[j]}

OldFiles == {NoFile, File(<<Junk>>), File([i \in 1..JunkLen |-> Junk] \o END_HTML)}

Ordinals == 1..MaxUnits
Ended == {"off", "done", "failed", "killed", "killed_in_write"}
Alive == {"next", "await"}

\* format!(.., url, chapter_title) + chapter_content + END_HTML
ChapterContent(u) == <<ChapterLink(u), ChapterBody>> \o END_HTML

\* chapters.retain(|(_, x)| !cached_chapters.contains(x)), as ordinals
RECURSIVE Retain(_, _, _)
Retain(chs, cch, i) ==
    IF i > Len(chs) THEN <<>>
    ELSE IF Contains(cch, chs[i]) THEN Retain(chs, cch, i + 1)
    ELSE <<i>> \o Retain(chs, cch, i + 1)

RECURSIVE Iota(_, _)
Iota(i, n) == IF i > n THEN <<>> ELSE <<i>> \o Iota(i + 1, n)

Range(s) == {s[i] : i \in 1..Len(s)}

----------------------------------------------------------------------------
(* main *)

MainIdle ==
    /\ bk = NoFile /\ pos = 0 /\ pc = "off" /\ run = 0
    /\ optInc = FALSE /\ incremental = FALSE
    /\ chapters = <<>> /\ slug = "t" /\ cached = <<>>
    /\ handle = None /\ task = [i \in Ordinals |-> "none"] /\ tokens = 0 /\ refills = 0
    /\ overtaken = FALSE
    /\ hdr = FALSE /\ orig = NoFile /\ copied = FALSE /\ prev = "off" /\ same = FALSE

\* A process starts: options().run(), the GET of the main page, its title
\* and (read later from the same document) its chapter links l. s is the
\* label the server gives the fiction while this process runs.
StartRun(inc, lim, l, s) ==
    /\ pc \in Ended /\ run < MaxRuns
    /\ run' = run + 1 /\ optInc' = inc /\ limit' = lim
    /\ chapters' = l /\ slug' = s
    /\ same' = (run > 0 /\ l = chapters)
    /\ prev' = pc /\ pc' = "open"
    /\ incremental' = FALSE /\ cached' = <<>>
    /\ hdr' = FALSE /\ copied' = FALSE
    /\ bi' = EmptyIter /\ handle' = None /\ pos' = 0
    /\ task' = [i \in Ordinals |-> "none"] /\ tokens' = 0 /\ refills' = 0
    /\ overtaken' = FALSE
    /\ orig' = disk
    /\ UNCHANGED <<disk, bk>>

\* A seeded fault: no check of the path, the file is created over.
PathExistsBail_Creates ==
    /\ pc = "open" /\ ~optInc /\ disk.ex
    /\ incremental' = FALSE /\ pos' = 0
    /\ disk' = File(<<>>)
    /\ pc' = "header"
    /\ UNCHANGED <<bk, run, optInc, chapters, slug, cached,
                   handle, task, tokens, refills, overtaken, hdr, orig, copied, prev, same, bi, limit>>

\* anyhow::bail!("Path already exists. ...")
PathExistsBail ==
    /\ pc = "open" /\ ~optInc /\ disk.ex
    /\ pc' = "failed"
    /\ UNCHANGED <<disk, bk, pos, run, optInc, incremental, chapters, slug, cached,
                   handle, task, tokens, refills, overtaken, hdr, orig, copied, prev, same, bi, limit>>

\* File::options().read(true).write(true).open(&path)
OpenIncremental ==
    /\ pc = "open" /\ optInc /\ disk.ex
    /\ incremental' = TRUE /\ pos' = 0
    /\ pc' = "scan"
    /\ UNCHANGED <<disk, bk, run, optInc, chapters, slug, cached,
                   handle, task, tokens, refills, overtaken, hdr, orig, copied, prev, same, bi, limit>>

\* File::create(&path): creates the file, empty.
CreateFile ==
    /\ pc = "open" /\ ~disk.ex
    /\ incremental' = FALSE /\ pos' = 0
    /\ disk' = File(<<>>)
    /\ pc' = "header"
    /\ UNCHANGED <<bk, run, optInc, chapters, slug, cached,
                   handle, task, tokens, refills, overtaken, hdr, orig, copied, prev, same, bi, limit>>

\* start_incremental_append: read_to_string leaves the cursor at the end of
\* the file, and the seek happens only when "</body>" is found.
StartIncrementalAppend ==
    /\ pc = "scan"
    /\ cached' = CachedChapters(disk.data)
    /\ pos' = IF RFind(disk.data) >= 0 THEN RFind(disk.data) ELSE Len(disk.data)
    /\ pc' = IF cached' = <<>> THEN "backup" ELSE "header"
    /\ UNCHANGED <<disk, bk, run, optInc, incremental, chapters, slug,
                   handle, task, tokens, refills, overtaken, hdr, orig, copied, prev, same, bi, limit>>

\* A seeded fault: the copy is left out.
Backup_NoCopy ==
    /\ pc = "backup"
    /\ pc' = "header"
    /\ UNCHANGED <<disk, bk, pos, run, optInc, incremental, chapters, slug, cached,
                   handle, task, tokens, refills, overtaken, hdr, orig, copied, prev, same, bi, limit>>

\* tokio::fs::copy(&path, &backup_path)
Backup ==
    /\ pc = "backup"
    /\ bk' = disk /\ copied' = TRUE
    /\ pc' = "header"
    /\ UNCHANGED <<disk, pos, run, optInc, incremental, chapters, slug, cached,
                   handle, task, tokens, refills, overtaken, hdr, orig, prev, same, bi, limit>>

\* if cached_chapters.is_empty() { seek(Start(0)); write_all(header) }
WriteHeader ==
    /\ pc = "header"
    /\ IF cached = <<>>
       THEN /\ disk' = File(WriteAt(disk.data, 0, <<Header>>))
            /\ pos' = 1
       ELSE UNCHANGED <<disk, pos>>
    /\ hdr' = TRUE
    /\ pc' = "chapters"
    /\ UNCHANGED <<bk, run, optInc, incremental, chapters, slug, cached,
                   handle, task, tokens, refills, overtaken, orig, copied, prev, same, bi, limit>>

\* return Err(Error::Layout(PageLayoutError::ChapterLinks))
NoChapterLinks ==
    /\ pc = "chapters" /\ chapters = <<>>
    /\ pc' = "failed"
    /\ UNCHANGED <<disk, bk, pos, run, optInc, incremental, chapters, slug, cached,
                   handle, task, tokens, refills, overtaken, hdr, orig, copied, prev, same, bi, limit>>

\* The tasks tokio::spawn has started when the source of the BufferedIter
\* has been advanced from `before` to `after`.
Spawned(before, after, tk) ==
    [i \in Ordinals |->
        IF i \in Range(before.iter) \ Range(after.iter) THEN "waiting" ELSE tk[i]]

\* The limiter, the retain and BufferedIter::new over the spawning map.
SpawnChapters ==
    /\ pc = "chapters" /\ chapters # <<>>
    /\ LET todo == IF incremental THEN Retain(chapters, cached, 1)
                   ELSE Iota(1, Len(chapters))
           src  == [iter |-> todo, buffer |-> <<>>]
           it   == BufferedIterNew(todo, limit)
       IN /\ bi' = it
          /\ task' = Spawned(src, it, task)
    /\ tokens' = 1 /\ refills' = 0 /\ overtaken' = FALSE
    /\ pc' = "next"
    /\ UNCHANGED <<disk, bk, pos, run, optInc, incremental, chapters, slug, cached,
                   handle, hdr, orig, copied, prev, same, limit>>

\* for handle in chapter_responses: one call of BufferedIter::next
ForNext ==
    /\ pc = "next"
    /\ LET r == BufferedIterNext(bi) IN
       /\ bi' = r.self
       /\ task' = Spawned(bi, r.self, task)
       /\ handle' = r.res
       /\ pc' = IF r.res = None THEN "shutdown" ELSE "await"
    /\ UNCHANGED <<disk, bk, pos, run, optInc, incremental, chapters, slug, cached,
                   tokens, refills, overtaken, hdr, orig, copied, prev, same, limit>>

\* A seeded fault: the request is sent without a token.
Acquire_NoToken(i) ==
    /\ pc \in Alive /\ task[i] = "waiting"
    /\ task' = [task EXCEPT ![i] = "sent"]
    /\ UNCHANGED <<disk, bk, pos, pc, run, optInc, incremental, chapters, slug, cached,
                   handle, tokens, refills, overtaken, hdr, orig, copied, prev, same, bi, limit>>

\* limiter.acquire_one().await, then the request is sent
Acquire(i) ==
    /\ pc \in Alive /\ task[i] = "waiting" /\ tokens > 0
    /\ tokens' = tokens - 1
    /\ task' = [task EXCEPT ![i] = "sent"]
    /\ UNCHANGED <<disk, bk, pos, pc, run, optInc, incremental, chapters, slug, cached,
                   handle, refills, overtaken, hdr, orig, copied, prev, same, bi, limit>>

\* The limiter's interval elapses with room in the bucket: one token more.
\* refills counts these intervals since the limiter was built (the intervals
\* that elapse over a full bucket add nothing and are not counted).
Refill ==
    /\ pc \in Alive /\ tokens < BucketMax
    /\ tokens' = tokens + 1 /\ refills' = refills + 1
    /\ UNCHANGED <<disk, bk, pos, pc, run, optInc, incremental, chapters, slug, cached,
                   handle, task, overtaken, hdr, orig, copied, prev, same, bi, limit>>

\* client.get(url.0).send().await returns
Respond(i, ok) ==
    /\ pc \in Alive /\ task[i] = "sent"
    /\ task' = [task EXCEPT ![i] = IF ok THEN "ok" ELSE "err"]
    /\ overtaken' = (overtaken \/ \E j \in 1..(i - 1) : task[j] \in {"waiting", "sent"})
    /\ UNCHANGED <<disk, bk, pos, pc, run, optInc, incremental, chapters, slug, cached,
                   handle, tokens, refills, hdr, orig, copied, prev, same, bi, limit>>

\* The body of the loop: the response is awaited and turned into content,
\* content + END_HTML is written, and the cursor goes back over END_HTML.
SaveChapter ==
    /\ pc = "await" /\ task[handle] = "ok"
    /\ LET bytes == ChapterContent(ResponseUrl(chapters[handle], slug)) IN
       /\ disk' = File(WriteAt(disk.data, pos, bytes))
       /\ pos' = pos + Len(bytes) - Len(END_HTML)
    /\ task' = [task EXCEPT ![handle] = "saved"]
    /\ handle' = None
    /\ pc' = "next"
    /\ UNCHANGED <<bk, run, optInc, incremental, chapters, slug, cached,
                   tokens, refills, overtaken, hdr, orig, copied, prev, same, bi, limit>>

\* A seeded fault: the title is written before the body is looked for.
ChapterFails_TitleWritten ==
    /\ pc = "await" /\ task[handle] \in {"ok", "err"}
    /\ disk' = File(WriteAt(disk.data, pos,
                            <<ChapterLink(ResponseUrl(chapters[handle], slug))>>))
    /\ pc' = "failed"
    /\ UNCHANGED <<bk, pos, run, optInc, incremental, chapters, slug, cached,
                   handle, task, tokens, refills, overtaken, hdr, orig, copied, prev, same, bi, limit>>

\* chapter_response? on a failed request; or ChapterTitle / ChapterBody not
\* found in the response.
ChapterFails ==
    /\ pc = "await" /\ task[handle] \in {"ok", "err"}
    /\ pc' = "failed"
    /\ UNCHANGED <<disk, bk, pos, run, optInc, incremental, chapters, slug, cached,
                   handle, task, tokens, refills, overtaken, hdr, orig, copied, prev, same, bi, limit>>

\* f.shutdown().await
Shutdown ==
    /\ pc = "shutdown"
    /\ pc' = "done"
    /\ UNCHANGED <<disk, bk, pos, run, optInc, incremental, chapters, slug, cached,
                   handle, task, tokens, refills, overtaken, hdr, orig, copied, prev, same, bi, limit>>

\* The state of a process that no longer runs.
Gone ==
    /\ bi' = EmptyIter /\ handle' = None /\ pos' = 0
    /\ task' = [i \in Ordinals |-> "none"] /\ tokens' = 0 /\ refills' = 0
    /\ overtaken' = FALSE

\* The process is killed between two writes.
Kill ==
    /\ pc \notin Ended
    /\ pc' = "killed"
    /\ Gone
    /\ UNCHANGED <<disk, bk, run, optInc, incremental, chapters, slug, cached,
                   hdr, orig, copied, prev, same, limit>>

\* The process is killed inside the write_all of a chapter: the first n
\* tokens of the chapter have reached the file.
KillInWrite(n) ==
    /\ pc = "await" /\ task[handle] = "ok"
    /\ LET bytes == ChapterContent(ResponseUrl(chapters[handle], slug)) IN
       /\ n \in 1..(Len(bytes) - 1)
       /\ disk' = File(WriteAt(disk.data, pos, SubSeq(bytes, 1, n)))
    /\ pc' = "killed_in_write"
    /\ Gone
    /\ UNCHANGED <<bk, run, optInc, incremental, chapters, slug, cached,
                   hdr, orig, copied, prev, same, limit>>

----------------------------------------------------------------------------
(* Specifications *)

Init ==
    /\ EqIdle /\ IterIdle
    /\ bi = EmptyIter /\ limit = 0
    /\ disk \in OldFiles
    /\ MainIdle

Next ==
    \/ (\E inc \in BOOLEAN, lim \in 0..MaxConn, l \in ChapterLists, s \in Labels :
            StartRun(inc, lim, l, s)) /\ UNCHANGED <<eqvars, itervars>>
    \/ PathExistsBail /\ UNCHANGED <<eqvars, itervars>>
    \/ OpenIncremental /\ UNCHANGED <<eqvars, itervars>>
    \/ CreateFile /\ UNCHANGED <<eqvars, itervars>>
    \/ StartIncrementalAppend /\ UNCHANGED <<eqvars, itervars>>
    \/ Backup /\ UNCHANGED <<eqvars, itervars>>
    \/ WriteHeader /\ UNCHANGED <<eqvars, itervars>>
    \/ NoChapterLinks /\ UNCHANGED <<eqvars, itervars>>
    \/ SpawnChapters /\ UNCHANGED <<eqvars, itervars>>
    \/ ForNext /\ UNCHANGED <<eqvars, itervars>>
    \/ (\E i \in Ordinals : Acquire(i)) /\ UNCHANGED <<eqvars, itervars>>
    \/ Refill /\ UNCHANGED <<eqvars, itervars>>
    \/ (\E i \in Ordinals, ok \in BOOLEAN : Respond(i, ok)) /\ UNCHANGED <<eqvars, itervars>>
    \/ SaveChapter /\ UNCHANGED <<eqvars, itervars>>
    \/ ChapterFails /\ UNCHANGED <<eqvars, itervars>>
    \/ Shutdown /\ UNCHANGED <<eqvars, itervars>>
    \/ Kill /\ UNCHANGED <<eqvars, itervars>>
    \/ (\E n \in 1..Len(ChapterContent(UA)) : KillInWrite(n)) /\ UNCHANGED <<eqvars, itervars>>

Spec == Init /\ [][Next]_vars

EqSpecInit == EqInit /\ IterIdle /\ bi = EmptyIter /\ limit = 0
              /\ disk = NoFile /\ MainIdle
EqNext == (\E k \in EqKeys : Compare(k)) /\ UNCHANGED <<itervars, bi, limit, mainvars>>
EqSpec == EqSpecInit /\ [][EqNext]_vars

\* The runs of processes that are left to run: nobody kills them, the
\* runtime keeps polling the main task and every spawned task that can go
\* on, the limiter's interval keeps elapsing, every request gets its
\* response or its error.
MainStep ==
    \/ PathExistsBail \/ OpenIncremental \/ CreateFile \/ StartIncrementalAppend
    \/ Backup \/ WriteHeader \/ NoChapterLinks \/ SpawnChapters
    \/ ForNext \/ SaveChapter \/ ChapterFails \/ Shutdown
LiveNext ==
    \/ (\E inc \in BOOLEAN, lim \in 0..MaxConn, l \in ChapterLists, s \in Labels :
            StartRun(inc, lim, l, s)) /\ UNCHANGED <<eqvars, itervars>>
    \/ MainStep /\ UNCHANGED <<eqvars, itervars>>
    \/ (\E i \in Ordinals : Acquire(i)) /\ UNCHANGED <<eqvars, itervars>>
    \/ Refill /\ UNCHANGED <<eqvars, itervars>>
    \/ (\E i \in Ordinals, ok \in BOOLEAN : Respond(i, ok)) /\ UNCHANGED <<eqvars, itervars>>
Fairness ==
    /\ WF_vars(MainStep /\ UNCHANGED <<eqvars, itervars>>)
    /\ WF_vars(Refill /\ UNCHANGED <<eqvars, itervars>>)
    /\ \A i \in Ordinals :
          /\ WF_vars(Acquire(i) /\ UNCHANGED <<eqvars, itervars>>)
          /\ WF_vars((\E ok \in BOOLEAN : Respond(i, ok)) /\ UNCHANGED <<eqvars, itervars>>)
LiveSpec == Init /\ [][LiveNext]_vars /\ Fairness

IterSpecInit == EqIdle /\ IterInit /\ disk = NoFile /\ MainIdle
IterNext ==
    \/ New /\ UNCHANGED <<eqvars, mainvars>>
    \/ CallNext /\ UNCHANGED <<eqvars, mainvars>>
    \/ Observe /\ UNCHANGED <<eqvars, mainvars>>
    \/ (\E i \in 1..MaxLen : Complete(i)) /\ UNCHANGED <<eqvars, mainvars>>
IterSpec == IterSpecInit /\ [][IterNext]_vars

----------------------------------------------------------------------------
(* ChapterUrl equality: C7, C8, C9 (under EqSpec) *)

Hier == ~lhs.cab /\ ~rhs.cab
\* The positions at which the two paths differ, over the shorter of the two.
Differing == {i \in 1..Min(Len(lhs.segs), Len(rhs.segs)) : lhs.segs[i] # rhs.segs[i]}

\* C7: two locators whose paths have a different number of segments never
\* compare equal, also when the shorter path is a prefix of the longer one.
C7_DifferentCountsUnequal ==
    \A k \in {"ab", "ba"} :
        (Hier /\ Len(lhs.segs) # Len(rhs.segs) /\ eqres[k] # "unset")
            => eqres[k] = "ne"

\* C8: for two locators with the same number of segments, == holds exactly
\* when they differ at no position other than the label position.
C8_SameCountEqIffLabelOnly ==
    (Hier /\ Len(lhs.segs) = Len(rhs.segs) /\ eqres["ab"] # "unset")
        => (eqres["ab"] = "eq" <=> Differing \subseteq {LabelIndex + 1})

\* Two paths of four segments that differ in the label alone have been
\* compared, and were found equal.
C8_Witness ==
    /\ Hier /\ Len(lhs.segs) = 4 /\ Len(rhs.segs) = 4
    /\ Differing = {LabelIndex + 1}
    /\ eqres["ab"] = "eq"

\* C9: == is reflexive for every locator, one without path segments
\* included, and symmetric.
C9_ReflexiveSymmetric ==
    /\ eqres["aa"] # "ne"
    /\ eqres["bb"] # "ne"
    /\ (eqres["ab"] # "unset" /\ eqres["ba"] # "unset") => eqres["ab"] = eqres["ba"]

----------------------------------------------------------------------------
(* BufferedIter: C4, C6 (under IterSpec) *)

Fused(s) == \A i \in 1..Len(s) : s[i] # None
IsPrefix(s, t) == Len(s) <= Len(t) /\ SubSeq(t, 1, Len(s)) = s
ReturnedNone == \E i \in 1..Len(yielded) : yielded[i] = None

\* C4: over a finite source sequence, the elements next() returns are the
\* source's, in the source's order, each once: a prefix of the source while
\* the iteration goes on, the whole of it when None has been returned,
\* whichever tasks have completed by then.
C4_SourceOrder ==
    (bpc = "iter" /\ Fused(source)) =>
        /\ IsPrefix(Somes(yielded), source)
        /\ ReturnedNone => Somes(yielded) = source

\* Three elements went through a queue shorter than the source, in order,
\* while only the task of the last one ever completed.
C4_Witness ==
    /\ Fused(source) /\ Len(source) = 3 /\ source[1] # source[2]
    /\ limit > 0 /\ limit < Len(source)
    /\ ReturnedNone /\ Somes(yielded) = source
    /\ completed = {3}

\* C6: with limit k > 0 the queue never holds more than k elements: at most
\* k elements have been taken from the source and not yet returned.
C6_QueueWithinLimit ==
    (bpc = "iter" /\ limit > 0) =>
        /\ BufferedIterLen(bi) <= limit
        /\ Len(Somes(Pulled)) - Len(Somes(yielded)) <= limit

\* After a call of next() the queue is full again.
C6_Witness ==
    /\ bpc = "iter" /\ limit = 2 /\ BufferedIterLen(bi) = 2
    /\ Len(Somes(yielded)) >= 1

----------------------------------------------------------------------------
(* The runs of main: C1, C2, C3, C5, C10 (under Spec) *)

\* header + N complete chapter records + END_HTML, and nothing else.
IsDocument(data) ==
    LET n == Len(data) IN
    /\ n >= 3 /\ (n - 3) % 2 = 0
    /\ data[1] = Header
    /\ SubSeq(data, n - 1, n) = END_HTML
    /\ \A i \in 1..((n - 3) \div 2) :
          data[2 * i].k = "h1a" /\ data[2 * i + 1] = ChapterBody

\* The chapters whose request this process has sent.
Fetched == {i \in Ordinals : task[i] \in {"sent", "ok", "err", "saved"}}
\* The tasks spawned and not yet completed.
InFlight == {i \in Ordinals : task[i] \in {"waiting", "sent"}}

\* r is the url a record of chapter u carries; data holds a record of u.
RecordOf(u, r) == \E lab \in Labels : r = ResponseUrl(u, lab)
Persisted(data, u) ==
    \E j \in 1..Len(CachedChapters(data)) : RecordOf(u, CachedChapters(data)[j])

\* C1: whenever the process is not inside a write call, from the header
\* step on and also after a failed run, the output file is exactly
\* header + N complete chapter records + end marker.
C1_AlwaysDocument ==
    (hdr /\ pc # "killed_in_write") => IsDocument(disk.data)

\* C2: a run resumed after an interruption between two chapter writes, at
\* least one chapter being in the file, with the same chapter list, fetches
\* exactly the chapters not yet in the file, and ends with one record for
\* every chapter of the list, in the list's order.
C2_ResumeCompletes ==
    (/\ pc = "done" /\ incremental /\ same /\ prev = "killed"
     /\ IsDocument(orig.data) /\ CachedChapters(orig.data) # <<>>)
    => /\ Fetched = {i \in 1..Len(chapters) : ~Persisted(orig.data, chapters[i])}
       /\ LET recs == CachedChapters(disk.data) IN
          /\ Len(recs) = Len(chapters)
          /\ \A i \in 1..Len(recs) : RecordOf(chapters[i], recs[i])

\* C3: after a run that completed, a run with --incremental over the same
\* non-empty chapter list sends no request and never changes the file.
C3_ResumeIdempotent ==
    (prev = "done" /\ same /\ optInc /\ chapters # <<>>)
        => (disk = orig /\ Fetched = {} /\ InFlight = {})

\* Such a run has completed, over a file of two chapters, one of them
\* recorded under another label than the chapter list gives it.
C3_Witness ==
    /\ pc = "done" /\ prev = "done" /\ same /\ optInc /\ Len(chapters) = 2
    /\ \E j \in 1..Len(CachedChapters(orig.data)) :
          CachedChapters(orig.data)[j].segs[LabelIndex + 1] # chapters[1].segs[LabelIndex + 1]

\* C5: with limit k > 0, never more than k tasks are spawned and not yet
\* completed.
C5_InFlightWithinLimit ==
    limit > 0 => Cardinality(InFlight) <= limit

\* C10: the copy to <path>.bk is made exactly when the run resumes an
\* existing file in which no chapter link is found, and it holds the file
\* as found before any of it is overwritten.
C10_BackupBeforeOverwrite ==
    LET zero == incremental /\ CachedChapters(orig.data) = <<>> IN
    /\ hdr => (copied <=> zero)
    /\ copied => (zero /\ bk = orig)
    /\ (zero /\ disk # orig) => (copied /\ bk = orig)

\* A run has replaced an unrelated file of several tokens, and the backup
\* holds that file.
C10_Witness ==
    /\ pc = "done" /\ copied /\ disk # orig
    /\ Len(orig.data) > 1 /\ bk = orig

----------------------------------------------------------------------------
(* End of file, dedup, order of writes, failures: C11 .. C20 *)

\* The records of the chapters of l, in l's order, as this run writes them.
RECURSIVE Records(_)
Records(l) ==
    IF l = <<>> THEN <<>>
    ELSE <<ChapterLink(ResponseUrl(Head(l), slug)), ChapterBody>> \o Records(Tail(l))

\* C11: when a run that wrote the header (a fresh run, or a resume that
\* found no chapter and so backed the file up and started over) completes,
\* the file is exactly the header, the records of all chapters of the list
\* and the end marker; nothing of the previous file follows the marker.
C11_MarkerIsEndOfFile ==
    (pc = "done" /\ cached = <<>>)
        => disk.data = <<Header>> \o Records(chapters) \o END_HTML

\* Two unit identities are the same: both hierarchical, as many segments,
\* and equal at every position but the label's.
SameIdentity(a, b) ==
    /\ ~a.cab /\ ~b.cab /\ Len(a.segs) = Len(b.segs)
    /\ \A i \in 1..Len(a.segs) : i = LabelIndex + 1 \/ a.segs[i] = b.segs[i]
Recovered(u) == \E j \in 1..Len(cached) : SameIdentity(u, cached[j])

\* C12: in a resumed run a chapter of the fetched list is requested only if
\* its identity is none of those recovered from the file, and when the run
\* completes every such chapter has been requested, wherever it stands in
\* the list; recovered identities missing from the list change nothing.
C12_FetchedIffNotRecovered ==
    incremental =>
        /\ \A i \in Fetched : ~Recovered(chapters[i])
        /\ pc = "done" =>
              \A i \in 1..Len(chapters) : ~Recovered(chapters[i]) => i \in Fetched

----------------------------------------------------------------------------
(* BufferedIter: C13, C15 (under IterSpec) *)

\* Once None, None ever after.
NoneIsFinal == \A i, j \in 1..Len(yielded) : (i < j /\ yielded[i] = None) => yielded[j] = None
\* The last call of next() returned None.
JustNone == yielded # <<>> /\ yielded[Len(yielded)] = None

\* C13: over any source, one that yields again after a None included, next()
\* returns None for good once it has returned None, and when it returns None
\* the queue is empty and the source is at its end.
C13_NoneIsFinalAnySource ==
    /\ NoneIsFinal
    /\ JustNone => (bi.buffer = <<>> /\ bi.iter = <<>>)

\* C13, amended: the same over the sources that keep returning None once
\* they have returned it (FusedIterator is only declared for those).
C13_NoneIsFinalFusedSource ==
    Fused(source) =>
        /\ NoneIsFinal
        /\ JustNone => (bi.buffer = <<>> /\ bi.iter = <<>>)

\* A fused source of three elements, buffered one ahead, was drained and
\* next() called twice more.
C13_Witness ==
    /\ Fused(source) /\ Len(source) = 3 /\ limit = 1
    /\ Len(yielded) = 5 /\ yielded[4] = None /\ yielded[5] = None
    /\ Somes(yielded) = source

\* C15: size_hint() is the source's size_hint plus the number of queued
\* elements, in both bounds, no upper bound staying no upper bound; len() is
\* the number of elements taken from the source and not yet returned.
C15_SizeHintAndLen ==
    obs # NoObs =>
        LET sh == SourceSizeHint(bi.iter, sized)
            queued == Len(Somes(Pulled)) - Len(Somes(yielded))
        IN /\ obs.lo = sh[1] + queued
           /\ obs.hi = (IF sized THEN sh[2] + queued ELSE NoUpper)
           /\ obs.len = queued

\* size_hint() and len() were called after a next(), one element queued
\* and one left in a source that knows its length.
C15_Witness ==
    /\ obs # NoObs /\ sized /\ Len(yielded) >= 1
    /\ obs.len = 1 /\ obs.lo = 2 /\ obs.hi = 2

----------------------------------------------------------------------------
(* The limiter, the order of the writes, failures: C14, C16 .. C19 (under Spec) *)

\* C14: a request is sent only by a task that has taken a token, so the
\* requests sent since the limiter was built are never more than the one
\* initial token plus the refills so far, whatever the limit and however
\* long the responses take.
C14_RequestsWithinTokens ==
    Cardinality(Fetched) <= 1 + refills

\* Two requests are in flight at once, no response yet, after one refill.
C14_Witness ==
    /\ limit = 0 /\ refills = 1
    /\ \A i \in Ordinals : task[i] = "sent"

\* C16: a resumed run over a file without "</body>" has, once past the
\* header step, written the header at offset 0 and stands right behind it,
\* chapter links found in the file or not: nothing is appended at the end.
C16_NoBodyEndStartsOver ==
    (pc = "chapters" /\ incremental /\ RFind(orig.data) < 0)
        => (pos = 1 /\ disk.data[1] = Header)

\* The chapters the filter of a resumed run drops from the list.
Skipped(i) == incremental /\ Contains(cached, chapters[i])
Saved == {i \in Ordinals : task[i] = "saved"}

\* C17: a chapter's record is written only when those of all earlier
\* chapters that are not skipped have been, in whatever order the responses
\* arrive; in a fresh run the file holds, behind the header, one record for
\* each chapter written so far, in the order of the list.
C17_WritesInOrdinalOrder ==
    /\ \A i, j \in 1..Len(chapters) :
          (i < j /\ j \in Saved /\ ~Skipped(i)) => i \in Saved
    /\ (hdr /\ ~incremental /\ pc \notin {"killed", "killed_in_write"})
          => disk.data = <<Header>>
                         \o Records(SubSeq(chapters, 1, Cardinality(Saved)))
                         \o (IF Saved = {} THEN <<>> ELSE END_HTML)

\* The response of the second chapter arrived before that of the first, and
\* both records have been written.
C17_Witness ==
    /\ overtaken /\ pc = "done" /\ Saved = {1, 2}

\* C18: the step by which a run fails writes nothing to the file, and in a
\* run that failed on chapter i no record was written for i or for a later
\* chapter, whichever later responses had arrived: the file is as the last
\* chapter written left it.
C18_FailureWritesNothing ==
    /\ [](pc = "failed" /\ handle # None
            => \A j \in Ordinals : j >= handle => j \notin Saved)
    /\ [][pc' = "failed" => disk' = disk]_vars

\* The run failed on its first chapter with the response of the second
\* already there.
C18_Witness ==
    /\ pc = "failed" /\ handle = 1 /\ task = <<"err", "ok">>

\* C19: a process started without --incremental over an existing file never
\* gets past the check of the path and leaves the file as it found it; a
\* file that existed when a process started is only ever changed by a
\* process started with --incremental.
C19_ExistingFileNeedsFlag ==
    /\ (run > 0 /\ ~optInc /\ orig.ex)
          => (disk = orig /\ ~hdr /\ pc \in {"open", "failed", "killed"})
    /\ (orig.ex /\ disk # orig) => optInc

\* A run without --incremental has failed over the file an earlier run
\* completed.
C19_Witness ==
    /\ pc = "failed" /\ ~optInc /\ prev = "done"
    /\ IsDocument(orig.data) /\ disk = orig

----------------------------------------------------------------------------
(* Termination: C20 (under LiveSpec) *)

\* C20: a process that is left to run, whatever the list and the limit,
\* ends Done or Failed, and when it ends Done every chapter that was not
\* skipped has been written and is in the file.
C20_RunEnds ==
    /\ (pc = "open") ~> (pc \in {"done", "failed"})
    /\ [](pc = "done" =>
            \A i \in 1..Len(chapters) :
                ~Skipped(i) => (i \in Saved /\ Persisted(disk.data, chapters[i])))

\* A list of two chapters was downloaded to the end with one task at a time
\* in the queue.
C20_Witness ==
    /\ pc = "done" /\ limit = 1 /\ Saved = {1, 2}
    /\ \A i \in 1..2 : Persisted(disk.data, chapters[i])

====
